---- MODULE Spec2Model ----
(***************************************************************************)
(* Employee evaluation reconciliation: the EmployeeForm and the            *)
(* EditEmployeeDialog components, the score store they write to, and the   *)
(* pure helpers they share (canonical order, field names, projection).     *)
(*                                                                         *)
(* The score store, the criteria store and the employee directory are      *)
(* external; each request to them is one atomic step that either succeeds  *)
(* or fails.  A handler (an async function) is a thread whose position     *)
(* moves from one await to the next; the code between two awaits is one    *)
(* step.  The values a handler read from component state when it was       *)
(* invoked (its closure) are kept in the thread.                           *)
(***************************************************************************)
EXTENDS Integers, Sequences, FiniteSets, TLC

(***************************************************************************)
(* Bounds                                                                  *)
(***************************************************************************)
\* rows the store may ever create (ids 1..MaxId)
MaxId == 4
\* operations of the user in one behaviour (the answers of the stores are not
\* counted, nor is the administrator adding a criterion, which happens once)
MaxOps == 4

(***************************************************************************)
(* The directory and the criteria table                                    *)
(***************************************************************************)
Employees == {"e1", "e2"}

EmployeeName(e) == IF e = "e1" THEN "Ani" ELSE "Budi"

\* the rows an administrator may have defined; names are unique
CriteriaRows ==
  { [id |-> "c1", name |-> "Kualitas Kerja",   type |-> "Benefit", scale |-> "1-5"],
    [id |-> "c2", name |-> "Jumlah Hari Alpa", type |-> "Cost",    scale |-> "0-10"],
    [id |-> "c3", name |-> "hariAlpa",         type |-> "Benefit", scale |-> "1-5"] }

CriteriaIds == {r.id : r \in CriteriaRows}

Criterion(cid) == CHOOSE r \in CriteriaRows : r.id = cid

\* the criteria present when the components mount
InitialCriteria == {"c1", "c2"}

\* what a user may type into a score input
InputValues == {0, 4}

(***************************************************************************)
(* Strings                                                                  *)
(***************************************************************************)
Upper == "ABCDEFGHIJKLMNOPQRSTUVWXYZ"
Lower == "abcdefghijklmnopqrstuvwxyz"
Digits == "0123456789"

Char(s, i) == SubSeq(s, i, i)

Chars(s) == {Char(s, i) : i \in 1..Len(s)}

IndexIn(s, c) == IF c \in Chars(s) THEN CHOOSE i \in 1..Len(s) : Char(s, i) = c ELSE 0

ToLowerChar(c) == IF c \in Chars(Upper) THEN Char(Lower, IndexIn(Upper, c)) ELSE c

IsSpace(c) == c \in {" ", "\t", "\n"}

RECURSIVE MapChars(_, _)
\* step is 1: toLowerCase; 2: drop what is not [a-z0-9\s]; 3: a whitespace run
\* becomes one "_"; 5: an underscore run becomes one "_"
MapChars(s, step) ==
  IF Len(s) = 0 THEN ""
  ELSE LET c == Char(s, 1)
           rest == SubSeq(s, 2, Len(s))
           n == IF Len(rest) = 0 THEN "" ELSE Char(rest, 1)
       IN CASE step = 1 -> ToLowerChar(c) \o MapChars(rest, step)
            [] step = 2 -> (IF c \in Chars(Lower) \cup Chars(Digits) \/ IsSpace(c)
                            THEN c ELSE "") \o MapChars(rest, step)
            [] step = 3 -> (IF IsSpace(c) THEN (IF IsSpace(n) THEN "" ELSE "_") ELSE c)
                           \o MapChars(rest, step)
            [] OTHER    -> (IF c = "_" /\ n = "_" THEN "" ELSE c) \o MapChars(rest, step)

RECURSIVE TrimLeft(_)
TrimLeft(s) == IF Len(s) > 0 /\ Char(s, 1) = "_" THEN TrimLeft(SubSeq(s, 2, Len(s))) ELSE s

RECURSIVE TrimRight(_)
TrimRight(s) ==
  IF Len(s) > 0 /\ Char(s, Len(s)) = "_" THEN TrimRight(SubSeq(s, 1, Len(s) - 1)) ELSE s

createFieldName(criteriaName) ==
  MapChars(TrimRight(TrimLeft(MapChars(MapChars(MapChars(criteriaName, 1), 2), 3))), 5)

EmployeeSpecialMappings ==
  [ kualitas_kerja |-> "kualitasKerja", tanggung_jawab |-> "tanggungJawab",
    kuantitas_kerja |-> "kuantitasKerja", pemahaman_tugas |-> "pemahamanTugas",
    inisiatif |-> "inisiatif", kerjasama |-> "kerjasama",
    jumlah_hari_alpa |-> "hariAlpa", jumlah_keterlambatan |-> "keterlambatan",
    jumlah_hari_izin |-> "hariIzin", jumlah_hari_sakit |-> "hariSakit",
    pulang_cepat |-> "pulangCepat", prestasi |-> "prestasi",
    surat_peringatan |-> "suratPeringatan" ]

\* the properties an object literal inherits from Object.prototype
ObjectPrototype ==
  {"constructor", "hasOwnProperty", "isPrototypeOf", "propertyIsEnumerable",
   "toLocaleString", "toString", "valueOf"}

\* specialMappings[fieldName] || fieldName: an own property of the table, else
\* an inherited one (a function, written here as the string it converts to),
\* else the field name
lookupOrSelf(specialMappings, fieldName) ==
  IF fieldName \in DOMAIN specialMappings THEN specialMappings[fieldName]
  ELSE IF fieldName \in ObjectPrototype
  THEN "function " \o (IF fieldName = "constructor" THEN "Object" ELSE fieldName)
       \o "() { [native code] }"
  ELSE fieldName

createEmployeeFieldMapping(criteriaName) ==
  lookupOrSelf(EmployeeSpecialMappings, createFieldName(criteriaName))

DatabaseSpecialMappings ==
  [ kualitas_kerja |-> "kualitas_kerja", tanggung_jawab |-> "tanggung_jawab",
    kuantitas_kerja |-> "kuantitas_kerja", pemahaman_tugas |-> "pemahaman_tugas",
    inisiatif |-> "inisiatif", kerjasama |-> "kerjasama",
    jumlah_hari_alpa |-> "hari_alpa", jumlah_keterlambatan |-> "keterlambatan",
    jumlah_hari_izin |-> "hari_izin", jumlah_hari_sakit |-> "hari_sakit",
    pulang_cepat |-> "pulang_cepat", prestasi |-> "prestasi",
    surat_peringatan |-> "surat_peringatan" ]

createDatabaseFieldMapping(criteriaName) ==
  lookupOrSelf(DatabaseSpecialMappings, createFieldName(criteriaName))

CANONICAL_CRITERIA_ORDER ==
  << "Kualitas Kerja", "Tanggung Jawab", "Kuantitas Kerja", "Pemahaman Tugas",
     "Inisiatif", "Kerjasama", "Jumlah Hari Alpa", "Jumlah Keterlambatan",
     "Jumlah Hari Izin", "Jumlah Hari Sakit", "Pulang Cepat", "Prestasi",
     "Surat Peringatan" >>

\* Array.prototype.indexOf, zero-based, -1 when absent
indexOf(name) ==
  IF \E i \in DOMAIN CANONICAL_CRITERIA_ORDER : CANONICAL_CRITERIA_ORDER[i] = name
  THEN (CHOOSE i \in DOMAIN CANONICAL_CRITERIA_ORDER : CANONICAL_CRITERIA_ORDER[i] = name) - 1
  ELSE -1

\* (variant) the code is made of the zero-based index
getCriteriaCodeZeroBased(criteriaName) ==
  LET index == indexOf(criteriaName)
  IN IF index # -1 THEN "C" \o ToString(index) ELSE "C?"

\* the code shown next to a criterion; EmployeeForm, CriteriaTable and
\* EditEmployeeDialog each hold the same text of it and of the canonical list
getCriteriaCode(criteriaName) ==
  LET index == indexOf(criteriaName)
  IN IF index # -1 THEN "C" \o ToString(index + 1) ELSE "C?"

\* (variant) a zero in the slot is replaced by 1
OrElseOne(obj, key, dflt) == IF key \in DOMAIN obj /\ obj[key] # 0 THEN obj[key] ELSE 1

\* JavaScript's  obj[key] || dflt  on a numeric slot
OrElse(obj, key, dflt) == IF key \in DOMAIN obj /\ obj[key] # 0 THEN obj[key] ELSE dflt

(***************************************************************************)
(* Criteria ordering and form defaults                                     *)
(***************************************************************************)
\* rank of a character in the comparison of two names: blank, digits, letters
CharRank(c) ==
  LET l == ToLowerChar(c)
  IN IF l \in Chars(Lower) THEN 20 + IndexIn(Lower, l)
     ELSE IF l \in Chars(Digits) THEN 2 + IndexIn(Digits, l)
     ELSE IF IsSpace(l) THEN 1 ELSE 2

RECURSIVE localeCompare(_, _)
\* String.prototype.localeCompare: negative, zero or positive
localeCompare(a, b) ==
  IF Len(a) = 0 /\ Len(b) = 0 THEN 0
  ELSE IF Len(a) = 0 THEN -1
  ELSE IF Len(b) = 0 THEN 1
  ELSE LET ra == CharRank(Char(a, 1))
           rb == CharRank(Char(b, 1))
       IN IF ra # rb THEN ra - rb
          ELSE localeCompare(SubSeq(a, 2, Len(a)), SubSeq(b, 2, Len(b)))

\* (variant) the comparator without its three tests for an unknown name
compareCriteriaByIndex(a, b) == indexOf(a.name) - indexOf(b.name)

\* the comparator handed to Array.prototype.sort
compareCriteria(a, b) ==
  LET indexA == indexOf(a.name)
      indexB == indexOf(b.name)
  IN IF indexA = -1 /\ indexB = -1 THEN localeCompare(a.name, b.name)
     ELSE IF indexA = -1 THEN 1
     ELSE IF indexB = -1 THEN -1
     ELSE indexA - indexB

\* (variant) the element is put before the elements it compares equal to
insertBeforeEqual(sorted, x) ==
  LET n == Cardinality({i \in DOMAIN sorted : compareCriteria(sorted[i], x) < 0})
  IN SubSeq(sorted, 1, n) \o << x >> \o SubSeq(sorted, n + 1, Len(sorted))

\* one step of the insertion sort Array.prototype.sort runs on a short array:
\* the element goes behind every element that does not compare greater
insertCriterion(sorted, x) ==
  LET n == Cardinality({i \in DOMAIN sorted : compareCriteria(sorted[i], x) <= 0})
  IN SubSeq(sorted, 1, n) \o << x >> \o SubSeq(sorted, n + 1, Len(sorted))

RECURSIVE sortedCriteria(_)
\* (criteriaData || []).sort(comparator) on an array of criteria
sortedCriteria(criteriaData) ==
  IF criteriaData = << >> THEN << >>
  ELSE insertCriterion(sortedCriteria(SubSeq(criteriaData, 1, Len(criteriaData) - 1)),
                       criteriaData[Len(criteriaData)])

\* the comparator on the rows of the criteria table, by id
compareById ==
  [a \in CriteriaIds, b \in CriteriaIds |-> compareCriteria(Criterion(a), Criterion(b))]

RECURSIVE sortCriteria(_)
\* the sorted array of the criterion ids in `ids`
sortCriteria(ids) ==
  IF ids = {} THEN << >>
  ELSE LET first == CHOOSE c \in ids : \A d \in ids : compareById[c, d] <= 0
       IN << first >> \o sortCriteria(ids \ {first})

Range(seq) == {seq[i] : i \in DOMAIN seq}

\* String.prototype.includes
RECURSIVE includes(_, _)
includes(s, part) ==
  IF Len(s) < Len(part) THEN FALSE
  ELSE IF SubSeq(s, 1, Len(part)) = part THEN TRUE
  ELSE includes(SubSeq(s, 2, Len(s)), part)

\* the value fetchCriteria puts in a criterion's slot of the new form
initialFormValue(criterion) ==
  IF criterion.type = "Benefit"
  THEN IF includes(criterion.scale, "1-5") THEN 1
       ELSE IF includes(criterion.scale, "0-1") \/ includes(criterion.scale, "0/1") THEN 0
       ELSE 1
  ELSE 0

\* the value handleSubmit puts in a criterion's slot when it resets the form
resetFormValue(criterion) ==
  IF criterion.type = "Benefit"
  THEN IF includes(criterion.scale, "1-5") THEN 1 ELSE 0
  ELSE 0

(***************************************************************************)
(* The projection of score rows to employee records                        *)
(***************************************************************************)
\* the record a first score row of an employee creates
initialEmployee(employeeId) ==
  [ id |-> employeeId, name |-> EmployeeName(employeeId),
    kualitasKerja |-> 1, tanggungJawab |-> 1, kuantitasKerja |-> 1,
    pemahamanTugas |-> 1, inisiatif |-> 1, kerjasama |-> 1,
    hariAlpa |-> 0, keterlambatan |-> 0, hariIzin |-> 0, hariSakit |-> 0,
    pulangCepat |-> 0, prestasi |-> 0, suratPeringatan |-> 0 ]

\* the property the switch statement assigns for a criterion name
switchField(criteriaName) ==
  CASE criteriaName = "Kualitas Kerja" -> "kualitasKerja"
    [] criteriaName = "Tanggung Jawab" -> "tanggungJawab"
    [] criteriaName = "Kuantitas Kerja" -> "kuantitasKerja"
    [] criteriaName = "Pemahaman Tugas" -> "pemahamanTugas"
    [] criteriaName = "Inisiatif" -> "inisiatif"
    [] criteriaName = "Kerjasama" -> "kerjasama"
    [] criteriaName = "Jumlah Hari Alpa" -> "hariAlpa"
    [] criteriaName = "Jumlah Keterlambatan" -> "keterlambatan"
    [] criteriaName = "Jumlah Hari Izin" -> "hariIzin"
    [] criteriaName = "Jumlah Hari Sakit" -> "hariSakit"
    [] criteriaName = "Pulang Cepat" -> "pulangCepat"
    [] criteriaName = "Prestasi" -> "prestasi"
    [] criteriaName = "Surat Peringatan" -> "suratPeringatan"
    [] OTHER -> criteriaName

\* obj[key] = value on a JavaScript object
setField(obj, key, value) ==
  [k \in DOMAIN obj \cup {key} |-> IF k = key THEN value ELSE obj[k]]

RECURSIVE convertFromPerRow(_, _)
\* (variant) employeeMap.has is not asked: every row starts a record
convertFromPerRow(rows, employeeMap) ==
  IF rows = << >> THEN employeeMap
  ELSE IF Head(rows).criteria_id \notin CriteriaIds
  THEN convertFromPerRow(Tail(rows), employeeMap)
  ELSE LET score == Head(rows)
           employee == setField(initialEmployee(score.employee_id),
                                switchField(Criterion(score.criteria_id).name), score.score)
       IN convertFromPerRow(Tail(rows), Append(employeeMap, employee))

RECURSIVE convertFrom(_, _)
\* the forEach over the rows, employeeMap being a list of records in insertion order
convertFrom(rows, employeeMap) ==
  IF rows = << >> THEN employeeMap
  ELSE IF Head(rows).criteria_id \notin CriteriaIds
  THEN convertFrom(Tail(rows), employeeMap)   \* if (!score.criteria) return
  ELSE LET score == Head(rows)
           employeeId == score.employee_id
           has == \E i \in DOMAIN employeeMap : employeeMap[i].id = employeeId
           map1 == IF has THEN employeeMap
                   ELSE Append(employeeMap, initialEmployee(employeeId))
           at == CHOOSE i \in DOMAIN map1 : map1[i].id = employeeId
           employee == setField(map1[at], switchField(Criterion(score.criteria_id).name),
                                score.score)
       IN convertFrom(Tail(rows), [map1 EXCEPT ![at] = employee])

convertEvaluationScoresToEmployees(rows) == convertFrom(rows, << >>)

RECURSIVE Orderings(_)
\* every array that lists the rows of a set once: a select without ORDER BY
\* may return any of them
Orderings(S) ==
  IF S = {} THEN {<< >>}
  ELSE UNION {{<< x >> \o rest : rest \in Orderings(S \ {x})} : x \in S}

(***************************************************************************)
(* The score store                                                         *)
(***************************************************************************)
RowsOf(rows, employeeId) == {r \in rows : r.employee_id = employeeId}

\* select('id, criteria_id').eq('employee_id', employeeId)
selectExisting(rows, employeeId) ==
  {[id |-> r.id, criteria_id |-> r.criteria_id] : r \in RowsOf(rows, employeeId)}

Conflicting(rows, entry) ==
  {r \in rows : r.employee_id = entry.employee_id /\ r.criteria_id = entry.criteria_id}

\* (variant) an upsert without onConflict: the conflict target is the primary key
upsertEntryNoConflict(rows, entry, freshId) ==
  IF "id" \in DOMAIN entry
  THEN {r \in rows : r.id # entry.id} \cup
       {[id |-> entry.id, employee_id |-> entry.employee_id,
         criteria_id |-> entry.criteria_id, score |-> entry.score]}
  ELSE rows \cup {[id |-> freshId, employee_id |-> entry.employee_id,
                   criteria_id |-> entry.criteria_id, score |-> entry.score]}

\* (variant) an upsert with ignoreDuplicates: a row of the same pair is kept as it is
upsertEntryIgnoreDuplicates(rows, entry, freshId) ==
  IF \E r \in rows : r.employee_id = entry.employee_id /\ r.criteria_id = entry.criteria_id
  THEN rows
  ELSE rows \cup {[id |-> IF "id" \in DOMAIN entry THEN entry.id ELSE freshId,
                   employee_id |-> entry.employee_id,
                   criteria_id |-> entry.criteria_id, score |-> entry.score]}

\* one row of an upsert with onConflict 'employee_id,criteria_id': a row of the
\* same pair is updated in place, otherwise a row is inserted; the row gets
\* the payload's id when it carries one, and a generated id when it is new
upsertEntry(rows, entry, freshId) ==
  LET hit == Conflicting(rows, entry)
      newId == IF "id" \in DOMAIN entry THEN entry.id
               ELSE IF hit # {} THEN (CHOOSE r \in hit : TRUE).id ELSE freshId
  IN (rows \ hit) \cup {[id |-> newId, employee_id |-> entry.employee_id,
                         criteria_id |-> entry.criteria_id, score |-> entry.score]}

UsesFreshId(rows, entry) == ~("id" \in DOMAIN entry) /\ Conflicting(rows, entry) = {}

RECURSIVE upsertRows(_, _, _)
\* the whole batch, applied to the rows in the order of the payload
upsertRows(rows, data, freshId) ==
  IF data = << >> THEN rows
  ELSE upsertRows(upsertEntry(rows, Head(data), freshId), Tail(data),
                  IF UsesFreshId(rows, Head(data)) THEN freshId + 1 ELSE freshId)

FreshIdsNeeded(rows, data) ==
  Cardinality({i \in DOMAIN data : UsesFreshId(rows, data[i])})

\* delete().eq('employee_id', employeeId)
deleteRows(rows, employeeId) == rows \ RowsOf(rows, employeeId)

(***************************************************************************)
(* The upsert plan of handleSubmit                                         *)
(***************************************************************************)
\* (variant) every criterion mapped to the id of one and the same row
existingScoresMapOneId(existingScores) ==
  [c \in {x.criteria_id : x \in existingScores} |->
     (CHOOSE x \in existingScores : \A y \in existingScores : x.id >= y.id).id]

\* existingScoresMap: criteria_id -> id, a later row replacing an earlier one
existingScoresMap(existingScores) ==
  [c \in {x.criteria_id : x \in existingScores} |->
     (CHOOSE x \in existingScores : x.criteria_id = c).id]

\* (variant) the id of the existing row is never sent
scoreDataWithoutId(employeeId, criteriaId, score, existingMap) ==
  [employee_id |-> employeeId, criteria_id |-> criteriaId, score |-> score]

\* one element of evaluationScoresData
scoreData(employeeId, criteriaId, score, existingMap) ==
  IF criteriaId \in DOMAIN existingMap
  THEN [employee_id |-> employeeId, criteria_id |-> criteriaId, score |-> score,
        id |-> existingMap[criteriaId]]
  ELSE [employee_id |-> employeeId, criteria_id |-> criteriaId, score |-> score]

\* EmployeeForm: the form is keyed by criterion id
formPlan(employeeId, crit, fd, existingScores) ==
  [i \in DOMAIN crit |->
     scoreData(employeeId, crit[i], OrElse(fd, crit[i], 0), existingScoresMap(existingScores))]

\* createFieldName of each criterion of the table
formFieldName == [c \in CriteriaIds |-> createFieldName(Criterion(c).name)]

\* createEmployeeFieldMapping of each criterion of the table
employeeFieldName == [c \in CriteriaIds |-> createEmployeeFieldMapping(Criterion(c).name)]

\* EditEmployeeDialog: the form is keyed by createFieldName(criterion.name)
editPlan(employeeId, crit, fd, existingScores) ==
  [i \in DOMAIN crit |->
     scoreData(employeeId, crit[i], OrElse(fd, formFieldName[crit[i]], 0),
               existingScoresMap(existingScores))]

(***************************************************************************)
(* State                                                                   *)
(***************************************************************************)
VARIABLES
  dbCriteria,          \* criteria table: the ids of the rows present
  scores,              \* evaluation_scores table: rows [id, employee_id, criteria_id, score]
  nextId,              \* the next id the store generates
  dbEmployees,         \* EmployeeForm: ids of the directory rows loaded
  evaluationScores,    \* EmployeeForm: score rows loaded (their order is not kept)
  criteria,            \* EmployeeForm: sorted criteria snapshot (ids)
  formData,            \* EmployeeForm: criterion id -> number
  selectedEmployeeId,  \* EmployeeForm: "" when none
  loading,             \* EmployeeForm: the shared loading flag
  editEmployee,        \* EditEmployeeDialog: the employee prop (selectedEmployeeForEdit)
  isEditDialogOpen,    \* EditEmployeeDialog: the isOpen prop
  editCriteria,        \* EditEmployeeDialog: sorted criteria snapshot (ids)
  editFormData,        \* EditEmployeeDialog: field name -> number
  editLoading,         \* EditEmployeeDialog: its loading flag
  sub,                 \* the handleSubmit in flight of each component
  del,                 \* the handleEmployeeDelete in flight
  pending,             \* fetches in flight that no handler above awaits
  toast,               \* variant of the toast on screen
  last,                \* history: the last upsert the store applied, until a delete
  used,                \* operations counted against MaxOps
  input                \* the argument of a pure helper (only in the specifications of
                       \* the helpers: criterion names, criteria arrays, score arrays)

vars == << dbCriteria, scores, nextId, dbEmployees, evaluationScores, criteria, formData,
           selectedEmployeeId, loading, editEmployee, isEditDialogOpen, editCriteria,
           editFormData, editLoading, sub, del, pending, toast, last, used, input >>

storeVars == << dbCriteria, scores, nextId >>
formVars == << dbEmployees, evaluationScores, criteria, formData, selectedEmployeeId, loading >>
editVars == << editEmployee, isEditDialogOpen, editCriteria, editFormData, editLoading >>

Threads == {"form", "edit"}

EmptyForm == [k \in {} |-> 0]

NullEmployee == [id |-> ""]

\* a handleSubmit that is not running; `result` is how its last run ended
Idle(result) ==
  [pc |-> "idle", emp |-> "", crit |-> << >>, fd |-> EmptyForm, existing |-> {},
   result |-> result]

\* `removed` is the number of rows the store deleted
NoDelete == [pc |-> "idle", emp |-> "", result |-> "none", removed |-> 0]

\* `existing` is what the lookup of that submission had read, `before` the rows
\* of the store when the batch arrived
NoUpsert == [emp |-> "", plan |-> << >>, existing |-> {}, before |-> {}]

\* the state just after both components have mounted: the three mount effects
\* of EmployeeForm have issued their requests, the dialog is closed
Mounted ==
  /\ dbCriteria = InitialCriteria
  /\ scores = {}
  /\ nextId = 1
  /\ dbEmployees = {}
  /\ evaluationScores = {}
  /\ criteria = << >>
  /\ formData = EmptyForm
  /\ selectedEmployeeId = ""
  /\ loading = TRUE
  /\ editEmployee = NullEmployee
  /\ isEditDialogOpen = FALSE
  /\ editCriteria = << >>
  /\ editFormData = EmptyForm
  /\ editLoading = FALSE
  /\ sub = [t \in Threads |-> Idle("none")]
  /\ del = NoDelete
  /\ pending = {"employees", "scores", "criteria"}
  /\ toast = "none"
  /\ last = NoUpsert
  /\ used = 0

InitMounted == Mounted /\ input = << >>

\* the state once the three requests of the mount effects have been answered
\* without error: fetchEmployeesOk, fetchEvaluationScoresOk and
\* fetchCriteriaOk (below) have each run once from InitMounted
Init ==
  /\ dbCriteria = InitialCriteria
  /\ scores = {}
  /\ nextId = 1
  /\ dbEmployees = Employees
  /\ evaluationScores = {}
  /\ criteria = sortCriteria(InitialCriteria)
  /\ formData = [c \in InitialCriteria |-> initialFormValue(Criterion(c))]
  /\ selectedEmployeeId = ""
  /\ loading = FALSE
  /\ editEmployee = NullEmployee
  /\ isEditDialogOpen = FALSE
  /\ editCriteria = << >>
  /\ editFormData = EmptyForm
  /\ editLoading = FALSE
  /\ sub = [t \in Threads |-> Idle("none")]
  /\ del = NoDelete
  /\ pending = {}
  /\ toast = "none"
  /\ last = NoUpsert
  /\ used = 0
  /\ input = << >>

(***************************************************************************)
(* EmployeeForm: the fetches                                               *)
(***************************************************************************)
fetchEmployeesOk ==
  /\ "employees" \in pending
  /\ pending' = pending \ {"employees"}
  /\ dbEmployees' = Employees
  /\ loading' = FALSE
  /\ UNCHANGED << storeVars, evaluationScores, criteria, formData, selectedEmployeeId,
                  editVars, sub, del, toast, last, used >>
  /\ UNCHANGED input

\* the error branch and the catch branch both toast
fetchEmployeesFail ==
  /\ "employees" \in pending
  /\ pending' = pending \ {"employees"}
  /\ toast' = "destructive"
  /\ loading' = FALSE
  /\ UNCHANGED << storeVars, dbEmployees, evaluationScores, criteria, formData,
                  selectedEmployeeId, editVars, sub, del, last, used >>
  /\ UNCHANGED input

fetchEvaluationScoresOk ==
  /\ "scores" \in pending
  /\ pending' = pending \ {"scores"}
  /\ evaluationScores' = scores
  /\ UNCHANGED << storeVars, dbEmployees, criteria, formData, selectedEmployeeId, loading,
                  editVars, sub, del, toast, last, used >>
  /\ UNCHANGED input

\* the request answers with an error: a toast
fetchEvaluationScoresError ==
  /\ "scores" \in pending
  /\ pending' = pending \ {"scores"}
  /\ toast' = "destructive"
  /\ UNCHANGED << storeVars, formVars, editVars, sub, del, last, used >>
  /\ UNCHANGED input

\* the request throws: the catch block logs and nothing else
fetchEvaluationScoresThrow ==
  /\ "scores" \in pending
  /\ pending' = pending \ {"scores"}
  /\ UNCHANGED << storeVars, formVars, editVars, sub, del, toast, last, used >>
  /\ UNCHANGED input

\* the employees prop changed: the effect fetches the scores again
employeesPropChanged ==
  /\ "scores" \notin pending
  /\ pending' = pending \cup {"scores"}
  /\ used < MaxOps
  /\ used' = used + 1
  /\ UNCHANGED << storeVars, formVars, editVars, sub, del, toast, last >>
  /\ UNCHANGED input

fetchCriteriaOk ==
  /\ "criteria" \in pending
  /\ pending' = pending \ {"criteria"}
  /\ criteria' = sortCriteria(dbCriteria)
  /\ formData' = [c \in dbCriteria |-> initialFormValue(Criterion(c))]
  /\ UNCHANGED << storeVars, dbEmployees, evaluationScores, selectedEmployeeId, loading,
                  editVars, sub, del, toast, last, used >>
  /\ UNCHANGED input

fetchCriteriaError ==
  /\ "criteria" \in pending
  /\ pending' = pending \ {"criteria"}
  /\ toast' = "destructive"
  /\ UNCHANGED << storeVars, formVars, editVars, sub, del, last, used >>
  /\ UNCHANGED input

\* the request throws: the catch block logs and nothing else
fetchCriteriaThrow ==
  /\ "criteria" \in pending
  /\ pending' = pending \ {"criteria"}
  /\ UNCHANGED << storeVars, formVars, editVars, sub, del, toast, last, used >>
  /\ UNCHANGED input

\* an administrator adds a criterion; criteriaUpdateTrigger changes and the
\* effect of EmployeeForm fetches the criteria again
criterionAdded(c) ==
  /\ c \in CriteriaIds \ dbCriteria
  /\ dbCriteria' = dbCriteria \cup {c}
  /\ pending' = pending \cup {"criteria"}
  /\ UNCHANGED << scores, nextId, formVars, editVars, sub, del, toast, last, used >>
  /\ UNCHANGED input

(***************************************************************************)
(* EmployeeForm: selection, input, handleSubmit                            *)
(***************************************************************************)
evaluatedEmployeeIds == {score.employee_id : score \in evaluationScores}

availableEmployees == {emp \in dbEmployees : emp \notin evaluatedEmployeeIds}

\* the Select is disabled while loading and offers the available employees;
\* the open dialog is modal: nothing behind it can be operated
setSelectedEmployeeId(e) ==
  /\ ~isEditDialogOpen
  /\ ~loading
  /\ e \in availableEmployees
  /\ e # selectedEmployeeId
  /\ selectedEmployeeId' = e
  /\ used < MaxOps
  /\ used' = used + 1
  /\ UNCHANGED << storeVars, dbEmployees, evaluationScores, criteria, formData, loading,
                  editVars, sub, del, pending, toast, last >>
  /\ UNCHANGED input

\* the inputs are rendered once an employee is selected and criteria are loaded
handleInputChange(criteria_id, value) ==
  /\ ~isEditDialogOpen
  /\ selectedEmployeeId # ""
  /\ criteria_id \in Range(criteria)
  /\ used < MaxOps
  /\ OrElse(formData, criteria_id, 0) # value
  /\ formData' = setField(formData, criteria_id, value)
  /\ used' = used + 1
  /\ UNCHANGED << storeVars, dbEmployees, evaluationScores, criteria, selectedEmployeeId,
                  loading, editVars, sub, del, pending, toast, last >>
  /\ UNCHANGED input

\* the submit button is rendered with the inputs and disabled while loading;
\* one handleSubmit of the form is followed at a time
handleSubmit ==
  /\ ~isEditDialogOpen
  /\ selectedEmployeeId # ""
  /\ criteria # << >>
  /\ ~loading
  /\ sub["form"].pc = "idle"
  /\ used < MaxOps
  /\ used' = used + 1
  /\ IF selectedEmployeeId \notin dbEmployees
     THEN /\ toast' = "destructive"
          /\ UNCHANGED << loading, sub >>
     ELSE /\ loading' = TRUE
          /\ sub' = [sub EXCEPT !["form"] =
                       [pc |-> "lookup", emp |-> selectedEmployeeId, crit |-> criteria,
                        fd |-> formData, existing |-> {}, result |-> "none"]]
          /\ UNCHANGED toast
  /\ UNCHANGED << storeVars, dbEmployees, evaluationScores, criteria, formData,
                  selectedEmployeeId, editVars, del, pending, last >>
  /\ UNCHANGED input

(***************************************************************************)
(* handleSubmit of either component, from its first await on               *)
(***************************************************************************)
\* evaluationScoresData of the handleSubmit in flight
planOf(t) ==
  IF t = "form"
  THEN formPlan(sub[t].emp, sub[t].crit, sub[t].fd, sub[t].existing)
  ELSE editPlan(sub[t].emp, sub[t].crit, sub[t].fd, sub[t].existing)

\* finally { setLoading(false) } of the component that runs t
finallyOf(t) ==
  IF t = "form" THEN loading' = FALSE /\ UNCHANGED editLoading
                ELSE editLoading' = FALSE /\ UNCHANGED loading

\* the select of the existing scores answers
lookupOk(t) ==
  /\ sub[t].pc = "lookup"
  /\ sub' = [sub EXCEPT ![t].pc = "upsert",
                        ![t].existing = selectExisting(scores, sub[t].emp)]
  /\ UNCHANGED << storeVars, formVars, editVars, del, pending, toast, last, used >>
  /\ UNCHANGED input

\* (variant) fetchError is logged and the handler goes on with no existing rows
lookupFailIgnored(t) ==
  /\ sub[t].pc = "lookup"
  /\ sub' = [sub EXCEPT ![t].pc = "upsert", ![t].existing = {},
                        ![t].result = "lookupFailed"]
  /\ UNCHANGED << storeVars, formVars, editVars, del, pending, toast, last, used >>
  /\ UNCHANGED input

\* fetchError: thrown, caught, toasted
lookupFail(t) ==
  /\ sub[t].pc = "lookup"
  /\ sub' = [sub EXCEPT ![t] = Idle("lookupFailed")]
  /\ toast' = "destructive"
  /\ finallyOf(t)
  /\ UNCHANGED << storeVars, dbEmployees, evaluationScores, criteria, formData,
                  selectedEmployeeId, editEmployee, isEditDialogOpen, editCriteria,
                  editFormData, del, pending, last, used >>
  /\ UNCHANGED input

\* the store applies the batch; the handler runs to its end
upsertOk(t) ==
  /\ sub[t].pc = "upsert"
  /\ nextId + FreshIdsNeeded(scores, planOf(t)) <= MaxId + 1
  /\ scores' = upsertRows(scores, planOf(t), nextId)
  /\ nextId' = nextId + FreshIdsNeeded(scores, planOf(t))
  /\ last' = [emp |-> sub[t].emp, plan |-> planOf(t), existing |-> sub[t].existing,
              before |-> scores]
  /\ sub' = [sub EXCEPT ![t] = Idle("ok")]
  /\ toast' = "default"
  /\ finallyOf(t)
  /\ IF t = "form"
     THEN /\ formData' = [c \in Range(sub[t].crit) |-> resetFormValue(Criterion(c))]
          /\ selectedEmployeeId' = ""
          /\ pending' = pending \cup {"scores"}
          /\ UNCHANGED isEditDialogOpen
     ELSE /\ isEditDialogOpen' = FALSE
          /\ pending' = pending \cup {"update"}
          /\ UNCHANGED << formData, selectedEmployeeId >>
  /\ UNCHANGED << dbCriteria, dbEmployees, evaluationScores, criteria, editEmployee,
                  editCriteria, editFormData, del, used >>
  /\ UNCHANGED input

\* (variant) the rows are sent one by one and the second request is rejected
upsertFailPartial(t) ==
  /\ sub[t].pc = "upsert"
  /\ planOf(t) # << >>
  /\ nextId <= MaxId
  /\ scores' = upsertRows(scores, << planOf(t)[1] >>, nextId)
  /\ nextId' = nextId + FreshIdsNeeded(scores, << planOf(t)[1] >>)
  /\ sub' = [sub EXCEPT ![t] = Idle("upsertFailed")]
  /\ toast' = "destructive"
  /\ finallyOf(t)
  /\ UNCHANGED << dbCriteria, dbEmployees, evaluationScores, criteria, formData,
                  selectedEmployeeId, editEmployee, isEditDialogOpen, editCriteria,
                  editFormData, del, pending, last, used >>
  /\ UNCHANGED input

\* the store rejects the batch and applies none of it
upsertFail(t) ==
  /\ sub[t].pc = "upsert"
  /\ sub' = [sub EXCEPT ![t] = Idle("upsertFailed")]
  /\ toast' = "destructive"
  /\ finallyOf(t)
  /\ UNCHANGED << storeVars, dbEmployees, evaluationScores, criteria, formData,
                  selectedEmployeeId, editEmployee, isEditDialogOpen, editCriteria,
                  editFormData, del, pending, last, used >>
  /\ UNCHANGED input

\* handleEmployeeUpdate, called by the dialog: its fetch answers, then it toasts
handleEmployeeUpdateOk ==
  /\ "update" \in pending
  /\ pending' = pending \ {"update"}
  /\ evaluationScores' = scores
  /\ toast' = "default"
  /\ UNCHANGED << storeVars, dbEmployees, criteria, formData, selectedEmployeeId, loading,
                  editVars, sub, del, last, used >>
  /\ UNCHANGED input

\* its fetch fails (toasted or only logged), then it toasts the success
handleEmployeeUpdateStale ==
  /\ "update" \in pending
  /\ pending' = pending \ {"update"}
  /\ toast' = "default"
  /\ UNCHANGED << storeVars, formVars, editVars, sub, del, last, used >>
  /\ UNCHANGED input

(***************************************************************************)
(* EditEmployeeDialog                                                      *)
(***************************************************************************)
RECURSIVE initialEditForm(_, _, _)
\* the effect on [employee, criteria]: each criterion's slot from the record
initialEditForm(employee, crit, newFormData) ==
  IF crit = << >> THEN newFormData
  ELSE initialEditForm(employee, Tail(crit),
         setField(newFormData, formFieldName[Head(crit)],
                  OrElse(employee, employeeFieldName[Head(crit)], 0)))

\* the records a card of the employee list may hold for an employee: the
\* projection of the stored rows, in any row order, or the bare record
employeeCards(e) ==
  IF RowsOf(scores, e) = {} THEN {initialEmployee(e)}
  ELSE {convertEvaluationScoresToEmployees(rows)[1] : rows \in Orderings(RowsOf(scores, e))}

\* the edit button of a card: the dialog opens and its two effects run
handleEmployeeEditClick(e) ==
  /\ ~isEditDialogOpen
  /\ \E employee \in employeeCards(e) :
       /\ editEmployee' = employee
       /\ editFormData' = IF editCriteria # << >>
                          THEN initialEditForm(employee, editCriteria, EmptyForm)
                          ELSE editFormData
  /\ isEditDialogOpen' = TRUE
  /\ pending' = pending \cup {"editCriteria"}
  /\ used < MaxOps
  /\ used' = used + 1
  /\ UNCHANGED << storeVars, formVars, editCriteria, editLoading, sub, del, toast, last >>
  /\ UNCHANGED input

\* the criteria fetch of the dialog answers; the effect on [employee, criteria] runs
editFetchCriteriaOk ==
  /\ "editCriteria" \in pending
  /\ pending' = pending \ {"editCriteria"}
  /\ editCriteria' = sortCriteria(dbCriteria)
  /\ editFormData' = IF editEmployee # NullEmployee /\ dbCriteria # {}
                     THEN initialEditForm(editEmployee, sortCriteria(dbCriteria), EmptyForm)
                     ELSE editFormData
  /\ UNCHANGED << storeVars, formVars, editEmployee, isEditDialogOpen, editLoading, sub,
                  del, toast, last, used >>
  /\ UNCHANGED input

\* it fails: both branches log and nothing else
editFetchCriteriaFail ==
  /\ "editCriteria" \in pending
  /\ pending' = pending \ {"editCriteria"}
  /\ UNCHANGED << storeVars, formVars, editVars, sub, del, toast, last, used >>
  /\ UNCHANGED input

editHandleInputChange(field, value) ==
  /\ isEditDialogOpen
  /\ field \in {formFieldName[c] : c \in Range(editCriteria)}
  /\ used < MaxOps
  /\ OrElse(editFormData, field, 0) # value
  /\ editFormData' = setField(editFormData, field, value)
  /\ used' = used + 1
  /\ UNCHANGED << storeVars, formVars, editEmployee, isEditDialogOpen, editCriteria,
                  editLoading, sub, del, pending, toast, last >>
  /\ UNCHANGED input

\* the submit button of the dialog is disabled while its loading flag is set
editHandleSubmit ==
  /\ isEditDialogOpen
  /\ ~editLoading
  /\ editEmployee # NullEmployee
  /\ used < MaxOps
  /\ used' = used + 1
  /\ editLoading' = TRUE
  /\ sub' = [sub EXCEPT !["edit"] =
               [pc |-> "lookup", emp |-> editEmployee.id, crit |-> editCriteria,
                fd |-> editFormData, existing |-> {}, result |-> "none"]]
  /\ UNCHANGED << storeVars, formVars, editEmployee, isEditDialogOpen, editCriteria,
                  editFormData, del, pending, toast, last >>
  /\ UNCHANGED input

\* Batal, or the dialog dismissed
onClose ==
  /\ isEditDialogOpen
  /\ isEditDialogOpen' = FALSE
  /\ used < MaxOps
  /\ used' = used + 1
  /\ UNCHANGED << storeVars, formVars, editEmployee, editCriteria, editFormData,
                  editLoading, sub, del, pending, toast, last >>
  /\ UNCHANGED input

(***************************************************************************)
(* EmployeeForm: handleEmployeeDelete                                      *)
(***************************************************************************)
\* the delete button of a card, confirmed; one handleEmployeeDelete is
\* followed at a time
handleEmployeeDelete(employeeId) ==
  /\ del.pc = "idle"
  /\ ~isEditDialogOpen
  /\ used < MaxOps
  /\ used' = used + 1
  /\ loading' = TRUE
  /\ del' = [pc |-> "delete", emp |-> employeeId, result |-> "none", removed |-> 0]
  /\ UNCHANGED << storeVars, dbEmployees, evaluationScores, criteria, formData,
                  selectedEmployeeId, editVars, sub, pending, toast, last >>
  /\ UNCHANGED input

\* the store deletes the employee's rows; the handler awaits the refresh
deleteOk ==
  /\ del.pc = "delete"
  /\ scores' = deleteRows(scores, del.emp)
  /\ last' = NoUpsert
  /\ toast' = "default"
  /\ del' = [del EXCEPT !.pc = "refresh",
                        !.removed = Cardinality(RowsOf(scores, del.emp))]
  /\ UNCHANGED << dbCriteria, nextId, formVars, editVars, sub, pending, used >>
  /\ UNCHANGED input

deleteFail ==
  /\ del.pc = "delete"
  /\ toast' = "destructive"
  /\ loading' = FALSE
  /\ del' = [del EXCEPT !.pc = "idle", !.result = "deleteFailed"]
  /\ UNCHANGED << storeVars, dbEmployees, evaluationScores, criteria, formData,
                  selectedEmployeeId, editVars, sub, pending, last, used >>
  /\ UNCHANGED input

\* (variant) the handler does not fetch the scores again
deleteRefreshOkSkipped ==
  /\ del.pc = "refresh"
  /\ loading' = FALSE
  /\ del' = [del EXCEPT !.pc = "idle", !.result = "ok"]
  /\ UNCHANGED << storeVars, dbEmployees, evaluationScores, criteria, formData,
                  selectedEmployeeId, editVars, sub, pending, toast, last, used >>
  /\ UNCHANGED input

\* the awaited fetchEvaluationScores loads the rows
deleteRefreshOk ==
  /\ del.pc = "refresh"
  /\ evaluationScores' = scores
  /\ loading' = FALSE
  /\ del' = [del EXCEPT !.pc = "idle", !.result = "ok"]
  /\ UNCHANGED << storeVars, dbEmployees, criteria, formData, selectedEmployeeId,
                  editVars, sub, pending, toast, last, used >>
  /\ UNCHANGED input

\* the awaited fetchEvaluationScores fails: toasted, or only logged
deleteRefreshFail ==
  /\ del.pc = "refresh"
  /\ toast' \in {"destructive", toast}
  /\ loading' = FALSE
  /\ del' = [del EXCEPT !.pc = "idle", !.result = "notRefreshed"]
  /\ UNCHANGED << storeVars, dbEmployees, evaluationScores, criteria, formData,
                  selectedEmployeeId, editVars, sub, pending, last, used >>
  /\ UNCHANGED input

(***************************************************************************)
(* Specification                                                           *)
(***************************************************************************)
Next ==
  \/ fetchEvaluationScoresOk
  \/ fetchEvaluationScoresError
  \/ fetchEvaluationScoresThrow
  \/ fetchCriteriaOk
  \/ fetchCriteriaError
  \/ fetchCriteriaThrow
  \/ \E c \in CriteriaIds : criterionAdded(c)
  \/ \E e \in Employees : setSelectedEmployeeId(e)
  \/ \E c \in CriteriaIds, v \in InputValues : handleInputChange(c, v)
  \/ handleSubmit
  \/ \E t \in Threads : lookupOk(t)
  \/ \E t \in Threads : lookupFail(t)
  \/ \E t \in Threads : upsertOk(t)
  \/ \E t \in Threads : upsertFail(t)
  \/ handleEmployeeUpdateOk
  \/ handleEmployeeUpdateStale
  \/ \E e \in Employees : handleEmployeeEditClick(e)
  \/ editFetchCriteriaOk
  \/ editFetchCriteriaFail
  \/ \E c \in CriteriaIds, v \in InputValues : editHandleInputChange(formFieldName[c], v)
  \/ editHandleSubmit
  \/ onClose
  \/ \E e \in Employees : handleEmployeeDelete(e)
  \/ deleteOk
  \/ deleteFail
  \/ deleteRefreshOk
  \/ deleteRefreshFail

Spec == Init /\ [][Next]_vars

\* the component from its mount on: the directory fetch is still to be answered
NextMount ==
  \/ Next
  \/ fetchEmployeesOk
  \/ fetchEmployeesFail
  \/ employeesPropChanged

SpecMount == InitMounted /\ [][NextMount]_vars


(***************************************************************************)
(* Properties                                                              *)
(***************************************************************************)

\* C1: under every interleaving of submissions, edits and deletions the store
\* holds at most one row for each pair of employee and criterion.
AtMostOneRowPerPair ==
  \A r1 \in scores, r2 \in scores :
    (r1.employee_id = r2.employee_id /\ r1.criteria_id = r2.criteria_id) => r1 = r2

\* a submission of the form and one of the dialog have both been applied, the
\* later one carrying no id for a pair whose row the earlier one had inserted
TwoWritersOnePair ==
  /\ sub["form"].result = "ok"
  /\ sub["edit"].result = "ok"
  /\ \E i \in DOMAIN last.plan :
       /\ "id" \notin DOMAIN last.plan[i]
       /\ Conflicting(last.before, last.plan[i]) # {}
  /\ Cardinality(RowsOf(scores, last.emp)) >= 2

\* C2: a submission that sends again, for every criterion the employee has a
\* row for, the value that row holds, and whose lookup read those rows, leaves
\* the rows as they were: as many rows, each with the id it had.
ResubmissionKeepsRows ==
  ( /\ last # NoUpsert
    /\ last.existing = selectExisting(last.before, last.emp)
    /\ {<< last.plan[i].criteria_id, last.plan[i].score >> : i \in DOMAIN last.plan}
         = {<< r.criteria_id, r.score >> : r \in RowsOf(last.before, last.emp)} )
  => scores = last.before

\* the same evaluation has been submitted a second time and applied
ResubmissionApplied ==
  /\ last # NoUpsert
  /\ RowsOf(last.before, last.emp) # {}
  /\ last.existing = selectExisting(last.before, last.emp)
  /\ {<< last.plan[i].criteria_id, last.plan[i].score >> : i \in DOMAIN last.plan}
       = {<< r.criteria_id, r.score >> : r \in RowsOf(last.before, last.emp)}
  /\ scores = last.before

\* C3: an entry of the plan carries an id exactly when the rows read by the
\* lookup contain its criterion, and the id is then the id of that row.
PlanIdsFollowLookup ==
  \A t \in Threads :
    sub[t].pc = "upsert" =>
      \A i \in DOMAIN planOf(t) :
        LET entry == planOf(t)[i]
            read == {x \in sub[t].existing : x.criteria_id = entry.criteria_id}
        IN /\ ("id" \in DOMAIN entry) <=> (read # {})
           /\ ("id" \in DOMAIN entry) => (\E x \in read : x.id = entry.id)

\* two criteria have rows and three criteria are submitted
PlanUpdatesTwoInsertsOne ==
  \E t \in Threads :
    /\ sub[t].pc = "upsert"
    /\ Cardinality(sub[t].existing) = 2
    /\ Len(sub[t].crit) = 3
    /\ Cardinality({i \in DOMAIN planOf(t) : "id" \in DOMAIN planOf(t)[i]}) = 2

\* C4: after an upsert has been applied, the projection of the stored rows,
\* in whatever order the store returns them, gives the employee a record
\* that holds every submitted value in the slot of its criterion and the
\* default in every slot that no stored row of the employee targets.
RoundTrip ==
  (last # NoUpsert /\ last.plan # << >>) =>
    \A rows \in Orderings(scores) :
      LET projected == convertEvaluationScoresToEmployees(rows)
          rec == projected[CHOOSE i \in DOMAIN projected : projected[i].id = last.emp]
          targeted == {switchField(Criterion(r.criteria_id).name) :
                         r \in RowsOf(scores, last.emp)}
      IN /\ \A i \in DOMAIN last.plan :
              rec[switchField(Criterion(last.plan[i].criteria_id).name)]
                = last.plan[i].score
         /\ \A k \in DOMAIN initialEmployee(last.emp) \ targeted :
              rec[k] = initialEmployee(last.emp)[k]

\* C5: when the lookup of the existing rows fails, the submission ends there
\* with a destructive toast and the store untouched, and no upsert is issued
\* for it: a thread whose lookup failed is never at its upsert.
FailedLookupAborts ==
  [][\A t \in Threads :
       sub'[t].result = "lookupFailed" =>
         /\ sub'[t].pc = "idle"
         /\ (sub[t].pc = "lookup" =>
               (toast' = "destructive" /\ scores' = scores /\ nextId' = nextId))]_vars

\* a lookup has failed while the store held rows of the employee
LookupHasFailed ==
  \E t \in Threads :
    /\ sub[t].result = "lookupFailed"
    /\ sub[t].pc = "idle"
    /\ toast = "destructive"
    /\ scores # {}

\* C6: the step in which a submission fails leaves the persisted rows as they
\* were, and the rows change only in the step of an upsert that succeeds or of
\* a deletion: no part of a failed plan is applied.
FailureLeavesRows ==
  [][/\ \A t \in Threads :
          (sub[t].pc # "idle" /\ sub'[t].result \in {"lookupFailed", "upsertFailed"})
            => (scores' = scores /\ nextId' = nextId)
     /\ (scores' # scores =>
           ( (\E u \in Threads : sub[u].pc = "upsert" /\ sub'[u].result = "ok")
             \/ (del.pc = "delete" /\ del'.pc = "refresh") ))]_vars

\* the store has rejected a batch that would have changed the rows it holds
UpsertHasFailed ==
  \E t \in Threads :
    /\ sub[t].result = "upsertFailed"
    /\ toast = "destructive"
    /\ scores # {}
    /\ last # NoUpsert

\* C7: when the store applies a batch, every pair the batch covers has exactly
\* one row and that row holds the value of this batch, whatever the lookup of
\* the submission had read, and the rows of the other pairs are as they were.
LastUpsertWins ==
  last # NoUpsert =>
    LET covered == {<< last.plan[i].employee_id, last.plan[i].criteria_id >> :
                      i \in DOMAIN last.plan}
    IN /\ \A i \in DOMAIN last.plan :
            LET rows == Conflicting(scores, last.plan[i])
            IN /\ Cardinality(rows) = 1
               /\ \A r \in rows : r.score = last.plan[i].score
       /\ {r \in scores : << r.employee_id, r.criteria_id >> \notin covered}
            = {r \in last.before : << r.employee_id, r.criteria_id >> \notin covered}

\* two submissions for one employee have raced: the later batch was planned
\* from a lookup that saw no row, and replaced the value of the earlier one
RaceOverwrites ==
  /\ sub["form"].result = "ok"
  /\ sub["edit"].result = "ok"
  /\ \E i \in DOMAIN last.plan :
       /\ "id" \notin DOMAIN last.plan[i]
       /\ \E r \in Conflicting(last.before, last.plan[i]) : r.score # last.plan[i].score

SubmissionRunsAlone ==
  sub["form"].pc \in {"lookup", "upsert"} => del.pc = "idle"

\* C10 as stated: every failure on the way of a submission, of the criteria
\* fetch, of the lookup or of the upsert, in the form and in the dialog, shows
\* a destructive toast.
EveryFailureToasts ==
  [][(fetchCriteriaError \/ fetchCriteriaThrow \/ editFetchCriteriaFail
        \/ (\E t \in Threads : lookupFail(t) \/ upsertFail(t)))
       => toast' = "destructive"]_vars

(***************************************************************************)
(* The pure helpers, each applied to every argument of a bounded set       *)
(***************************************************************************)
componentVars ==
  << dbCriteria, scores, nextId, dbEmployees, evaluationScores, criteria, formData,
     selectedEmployeeId, loading, editEmployee, isEditDialogOpen, editCriteria,
     editFormData, editLoading, sub, del, pending, toast, last, used >>

\* the arrays of at most n elements of S
Arrays(S, n) == UNION {[1..k -> S] : k \in 0..n}

\* length of the array of joined score rows handed to the projection
MaxRows == 3

\* a joined score row; criteria_id "c0" is a row whose criteria join is null
ScoreRows ==
  [employee_id : Employees, criteria_id : CriteriaIds \cup {"c0"}, score : InputValues]

InitProjection ==
  /\ Mounted
  /\ input \in {[rows |-> a] : a \in Arrays(ScoreRows, MaxRows)}

\* convertEvaluationScoresToEmployees() over the loaded rows
project ==
  /\ DOMAIN input = {"rows"}
  /\ input' = [rows |-> input.rows,
               employees |-> convertEvaluationScoresToEmployees(input.rows)]
  /\ UNCHANGED componentVars

NextProjection == project

SpecProjection == InitProjection /\ [][NextProjection]_vars

\* C11: the projection returns exactly one record for each employee_id that
\* occurs in the joined rows, and the records are in the order in which their
\* employee_id first occurs in the input.
ProjectionFirstSeen ==
  "employees" \in DOMAIN input =>
    LET rows == input.rows
        out == input.employees
        kept == {i \in DOMAIN rows : rows[i].criteria_id \in CriteriaIds}
        first(e) == CHOOSE i \in kept :
                      /\ rows[i].employee_id = e
                      /\ \A j \in kept : rows[j].employee_id = e => i <= j
    IN /\ {out[i].id : i \in DOMAIN out} = {rows[i].employee_id : i \in kept}
       /\ Len(out) = Cardinality({rows[i].employee_id : i \in kept})
       /\ \A i \in DOMAIN out, j \in DOMAIN out :
            i < j => first(out[i].id) < first(out[j].id)

\* three rows of two employees, the second employee of the directory first
ProjectedTwoEmployees ==
  /\ "employees" \in DOMAIN input
  /\ Len(input.rows) = 3
  /\ << input.rows[1].employee_id, input.rows[2].employee_id, input.rows[3].employee_id >>
       = << "e2", "e1", "e2" >>
  /\ \A i \in 1..3 : input.rows[i].criteria_id \in CriteriaIds
  /\ Len(input.employees) = 2
  /\ input.employees[1].id = "e2"

(***************************************************************************)
(* The helpers on criterion names                                          *)
(***************************************************************************)
\* length of the names built from NameAlphabet
MaxNameLen == 3

\* a letter, a capital, a blank, an underscore and a punctuation mark
NameAlphabet == {"a", "B", " ", "_", "!"}

RECURSIVE Strings(_, _)
\* the strings of at most n characters of S
Strings(S, n) ==
  IF n = 0 THEN {""}
  ELSE LET shorter == Strings(S, n - 1)
       IN shorter \cup {c \o s : c \in S, s \in {t \in shorter : Len(t) = n - 1}}

\* names an administrator may give a criterion: the canonical ones, other
\* spellings of them, and every short string
CriterionNames ==
  Range(CANONICAL_CRITERIA_ORDER)
    \cup {"kualitas kerja", "Kualitas  Kerja", "PRESTASI", "Prestasi!", "hariAlpa",
          "Jumlah  Hari  Alpa!", "jumlah_hari_alpa", "Disiplin Kerja", "Kehadiran 2",
          "Constructor"}
    \cup Strings(NameAlphabet, MaxNameLen)

InitNames ==
  /\ Mounted
  /\ input \in {[name |-> n] : n \in CriterionNames}

\* createFieldName(criteriaName)
normalize ==
  /\ "name" \in DOMAIN input
  /\ "fieldName" \notin DOMAIN input
  /\ input' = setField(input, "fieldName", createFieldName(input.name))
  /\ UNCHANGED componentVars

\* createFieldName() of a field name
normalizeAgain ==
  /\ "fieldName" \in DOMAIN input
  /\ "fieldNameAgain" \notin DOMAIN input
  /\ input' = setField(input, "fieldNameAgain", createFieldName(input.fieldName))
  /\ UNCHANGED componentVars

\* the property of the record the projection assigns for a score of the criterion
projectSlot ==
  /\ "name" \in DOMAIN input
  /\ "slot" \notin DOMAIN input
  /\ input' = setField(input, "slot", switchField(input.name))
  /\ UNCHANGED componentVars

\* createEmployeeFieldMapping(criteriaName)
mapEmployeeField ==
  /\ "name" \in DOMAIN input
  /\ "employeeField" \notin DOMAIN input
  /\ input' = setField(input, "employeeField", createEmployeeFieldMapping(input.name))
  /\ UNCHANGED componentVars

\* getCriteriaCode(criteriaName)
codeOf ==
  /\ "name" \in DOMAIN input
  /\ "code" \notin DOMAIN input
  /\ input' = setField(input, "code", getCriteriaCode(input.name))
  /\ UNCHANGED componentVars

\* createDatabaseFieldMapping(criteriaName)
mapDatabaseField ==
  /\ "name" \in DOMAIN input
  /\ "databaseField" \notin DOMAIN input
  /\ input' = setField(input, "databaseField", createDatabaseFieldMapping(input.name))
  /\ UNCHANGED componentVars

NextNames ==
  normalize \/ normalizeAgain \/ projectSlot \/ mapEmployeeField \/ codeOf \/ mapDatabaseField

SpecNames == InitNames /\ [][NextNames]_vars

\* C12: the projection writes a score into the named slot of the record
\* whenever the normalized criterion name is a key of the record-field table,
\* the slot being the one createEmployeeFieldMapping gives, and otherwise into
\* the property named by the raw criterion name.
SlotAgreesWithMapping ==
  {"slot", "employeeField", "fieldName"} \subseteq DOMAIN input =>
    IF input.fieldName \in DOMAIN EmployeeSpecialMappings
    THEN input.slot = input.employeeField
    ELSE input.slot = input.name

\* the criteria table at the time of the projection: the rows that have
\* scores, and a criterion that was added after the last evaluation
ProjectionCriteria ==
  CriteriaRows \cup
    {[id |-> "c4", name |-> "Disiplin Kerja", type |-> "Benefit", scale |-> "1-5"]}

\* C13: every record of the projection holds, for every criterion of the
\* criteria table, a number in the slot of that criterion: a stored score of
\* the employee for the criterion when there is one, and the default of the
\* criterion's type and scale otherwise.
ProjectionHoldsEveryCriterion ==
  "employees" \in DOMAIN input =>
    \A i \in DOMAIN input.employees, c \in ProjectionCriteria :
      LET employee == input.employees[i]
          slot == switchField(c.name)
          stored == {j \in DOMAIN input.rows :
                       /\ input.rows[j].employee_id = employee.id
                       /\ input.rows[j].criteria_id = c.id}
      IN /\ slot \in DOMAIN employee
         /\ employee[slot] \in Int
         /\ IF stored = {} THEN employee[slot] = initialFormValue(c)
            ELSE \E j \in stored : employee[slot] = input.rows[j].score

\* C14: createFieldName is idempotent: the field name of a field name is that
\* field name.
FieldNameIdempotent ==
  "fieldNameAgain" \in DOMAIN input => input.fieldNameAgain = input.fieldName

\* C15: a name written with underscores between its words has the field name
\* of the same name written with blanks; the field name of
\* "Jumlah  Hari  Alpa!" is the field name of "jumlah_hari_alpa".
UnderscoresLikeBlanks ==
  "fieldName" \in DOMAIN input =>
    LET RECURSIVE blanks(_)
        blanks(s) == IF Len(s) = 0 THEN ""
                     ELSE (IF Char(s, 1) = "_" THEN " " ELSE Char(s, 1))
                          \o blanks(SubSeq(s, 2, Len(s)))
    IN /\ input.fieldName = createFieldName(blanks(input.name))
       /\ input.name = "Jumlah  Hari  Alpa!" =>
            input.fieldName = createFieldName("jumlah_hari_alpa")

(***************************************************************************)
(* The default value of a criterion's slot                                 *)
(***************************************************************************)
\* length of the scales built from ScaleAlphabet
MaxScaleLen == 3

ScaleAlphabet == {"0", "1", "5", "-", "/"}

\* what an administrator may write in the scale column
Scales ==
  {"0-10", "1-10", "1-100", "0-100", "Skala 1-5", "0-1 (ya/tidak)"}
    \cup Strings(ScaleAlphabet, MaxScaleLen)

\* criteria of every type and scale, under a canonical Benefit name, a
\* canonical Cost name, the canonical binary name and an extension name
DefaultCriteria ==
  [name : {"Kualitas Kerja", "Jumlah Hari Alpa", "Prestasi", "Disiplin Kerja"},
   type : {"Benefit", "Cost"}, scale : Scales]

InitDefaults ==
  /\ Mounted
  /\ input \in {[criterion |-> c] : c \in DefaultCriteria}

\* the forEach of fetchCriteria that fills the new form
initializeForm ==
  /\ "criterion" \in DOMAIN input
  /\ "initial" \notin DOMAIN input
  /\ input' = setField(input, "initial", initialFormValue(input.criterion))
  /\ UNCHANGED componentVars

\* the forEach of handleSubmit that resets the form
resetForm ==
  /\ "criterion" \in DOMAIN input
  /\ "reset" \notin DOMAIN input
  /\ input' = setField(input, "reset", resetFormValue(input.criterion))
  /\ UNCHANGED componentVars

\* the slot of the criterion in the record the projection creates for an
\* employee who has no score for it; "undefined" when the record has no such
\* property
projectDefault ==
  /\ "criterion" \in DOMAIN input
  /\ "projected" \notin DOMAIN input
  /\ LET employee == initialEmployee("e1")
         slot == switchField(input.criterion.name)
     IN input' = setField(input, "projected",
                          IF slot \in DOMAIN employee THEN employee[slot] ELSE "undefined")
  /\ UNCHANGED componentVars

NextDefaults == initializeForm \/ resetForm \/ projectDefault

SpecDefaults == InitDefaults /\ [][NextDefaults]_vars

\* C16: the form is initialised with 1 for a Benefit criterion whose scale
\* is a 1-5 range, 0 for a Benefit criterion whose scale is a binary range
\* (0-1 or 0/1), 1 for a Benefit criterion of any other scale (such as "0-10"
\* or "1-10"), and 0 for every Cost criterion.
FormDefaultByTypeAndScale ==
  "initial" \in DOMAIN input =>
    LET scale == input.criterion.scale
        digit(p) == p \in 1..Len(scale) /\ Char(scale, p) \in Chars(Digits)
        \* the range written at p..p+2, not as a part of a longer number
        range(r) == \E p \in 1..(Len(scale) - 2) :
                       /\ SubSeq(scale, p, p + 2) = r
                       /\ ~digit(p - 1)
                       /\ ~digit(p + 3)
    IN input.initial =
         IF input.criterion.type = "Cost" THEN 0
         ELSE IF includes(scale, "1-5") THEN 1
         ELSE IF range("0-1") \/ range("0/1") THEN 0
         ELSE 1

\* C17: the initial value of the form, the value of the form after it is
\* reset and the default of the projection are the same for every criterion.
OneDefaultEverywhere ==
  {"initial", "reset", "projected"} \subseteq DOMAIN input =>
    /\ input.initial = input.reset
    /\ input.reset = input.projected

\* C18: getCriteriaCode gives the i-th name of the canonical list the code
\* "C" followed by i (counted from one), and every other name the code "C?".
CodeFollowsCanonicalPosition ==
  "code" \in DOMAIN input =>
    LET codes == << "C1", "C2", "C3", "C4", "C5", "C6", "C7", "C8", "C9", "C10", "C11",
                    "C12", "C13" >>
        at == {i \in DOMAIN CANONICAL_CRITERIA_ORDER :
                 CANONICAL_CRITERIA_ORDER[i] = input.name}
    IN /\ Len(CANONICAL_CRITERIA_ORDER) = 13
       /\ \A i \in at : input.code = codes[i]
       /\ at = {} => input.code = "C?"

\* the code of the last canonical name
CodedLastCanonical ==
  /\ "code" \in DOMAIN input
  /\ input.name = "Surat Peringatan"
  /\ input.code = "C13"

(***************************************************************************)
(* The criteria sort                                                       *)
(***************************************************************************)
\* length of the arrays of criteria handed to the sort
MaxCriteria == 3

\* canonical names and names outside the canonical list
SortNames ==
  {"Kualitas Kerja", "Jumlah Hari Alpa", "Prestasi", "hariAlpa", "Absensi", "Zona",
   "absensi 2"}

\* the arrays a select of the criteria table may return; the id of a row is
\* its place in the array, so two rows of one name are told apart
CriteriaArrays ==
  {[i \in DOMAIN names |-> [id |-> i, name |-> names[i]]] :
     names \in Arrays(SortNames, MaxCriteria)}

InitSort ==
  /\ Mounted
  /\ input \in {[criteriaData |-> a] : a \in CriteriaArrays}

\* the sort of fetchCriteria
sortFetched ==
  /\ "criteriaData" \in DOMAIN input
  /\ "sortedCriteria" \notin DOMAIN input
  /\ input' = setField(input, "sortedCriteria", sortedCriteria(input.criteriaData))
  /\ UNCHANGED componentVars

\* the sort of a later fetchCriteria, or of another component, over an array
\* that is already in the order of the first
sortSorted ==
  /\ "sortedCriteria" \in DOMAIN input
  /\ "sortedAgain" \notin DOMAIN input
  /\ input' = setField(input, "sortedAgain", sortedCriteria(input.sortedCriteria))
  /\ UNCHANGED componentVars

NextSort == sortFetched \/ sortSorted

SpecSort == InitSort /\ [][NextSort]_vars

\* C19: the sorted array holds the criteria of the input; every criterion of
\* a canonical name stands before every criterion of another name, the
\* canonical ones in the order of the canonical list and the others in
\* ascending order of their names.
KnownBeforeUnknown ==
  "sortedCriteria" \in DOMAIN input =>
    LET out == input.sortedCriteria
        known(c) == c.name \in Range(CANONICAL_CRITERIA_ORDER)
        place(c) == CHOOSE i \in DOMAIN CANONICAL_CRITERIA_ORDER :
                      CANONICAL_CRITERIA_ORDER[i] = c.name
    IN /\ Len(out) = Len(input.criteriaData)
       /\ Range(out) = Range(input.criteriaData)
       /\ \A i \in DOMAIN out, j \in DOMAIN out :
            i < j =>
              /\ known(out[j]) => known(out[i])
              /\ known(out[i]) /\ known(out[j]) => place(out[i]) <= place(out[j])
              /\ ~known(out[i]) /\ ~known(out[j]) =>
                   localeCompare(out[i].name, out[j].name) <= 0

\* an unknown name that sorts before the canonical names as a string, and two
\* canonical names out of order, have been sorted
SortedMixedArray ==
  /\ "sortedCriteria" \in DOMAIN input
  /\ Len(input.criteriaData) = 3
  /\ [i \in 1..3 |-> input.criteriaData[i].name] = << "Absensi", "Prestasi", "Kualitas Kerja" >>
  /\ [i \in 1..3 |-> input.sortedCriteria[i].name]
       = << "Kualitas Kerja", "Prestasi", "Absensi" >>

\* C20: sorting the sorted array gives the sorted array.
SortIdempotent ==
  "sortedAgain" \in DOMAIN input => input.sortedAgain = input.sortedCriteria

\* an array with two criteria of one name has been sorted twice
SortedTwiceWithEqualNames ==
  /\ "sortedAgain" \in DOMAIN input
  /\ Len(input.criteriaData) = 3
  /\ input.criteriaData[1].name = "Zona"
  /\ input.criteriaData[2].name = "Absensi"
  /\ input.criteriaData[3].name = "Absensi"
  /\ input.sortedAgain # input.criteriaData

\* C21: each of the two tables has thirteen keys, the field names of the
\* thirteen canonical names; createDatabaseFieldMapping and
\* createEmployeeFieldMapping return the table's entry when the field name of
\* the criterion is a key, and the field name itself when it is not.
MappingsLookUpOrFallBack ==
  {"fieldName", "employeeField", "databaseField"} \subseteq DOMAIN input =>
    LET keys == {createFieldName(CANONICAL_CRITERIA_ORDER[i]) :
                   i \in DOMAIN CANONICAL_CRITERIA_ORDER}
    IN /\ Cardinality(keys) = 13
       /\ DOMAIN EmployeeSpecialMappings = keys
       /\ DOMAIN DatabaseSpecialMappings = keys
       /\ IF input.fieldName \in keys
          THEN /\ input.employeeField = EmployeeSpecialMappings[input.fieldName]
               /\ input.databaseField = DatabaseSpecialMappings[input.fieldName]
          ELSE /\ input.employeeField = input.fieldName
               /\ input.databaseField = input.fieldName

(***************************************************************************)
(* The plan and the record of a submission                                 *)
(***************************************************************************)
\* C22: the plan a handleSubmit sends has one entry for each criterion of the
\* snapshot it was invoked with, in the order of the snapshot and no
\* criterion twice, each for the employee of the submission, with the value
\* the form held for the criterion, or 0 when the form held none.
PlanCoversSnapshot ==
  \A t \in Threads :
    sub[t].pc = "upsert" =>
      LET plan == planOf(t)
          crit == sub[t].crit
          fd == sub[t].fd
          slot(c) == IF t = "form" THEN c ELSE formFieldName[c]
      IN /\ Len(plan) = Len(crit)
         /\ \A i \in DOMAIN plan :
              /\ plan[i].employee_id = sub[t].emp
              /\ plan[i].criteria_id = crit[i]
              /\ plan[i].score = IF slot(crit[i]) \in DOMAIN fd THEN fd[slot(crit[i])] ELSE 0
         /\ \A i \in DOMAIN plan, j \in DOMAIN plan :
              plan[i].criteria_id = plan[j].criteria_id => i = j

\* a plan of the form for two criteria, with a 0 typed for a Benefit criterion
PlanWithZeroForBenefit ==
  /\ sub["form"].pc = "upsert"
  /\ Len(sub["form"].crit) >= 2
  /\ \E c \in DOMAIN sub["form"].fd :
       sub["form"].fd[c] = 0 /\ Criterion(c).type = "Benefit"

\* C23: when the dialog was opened on the projection of the stored rows of an
\* employee and is saved with the form as it was initialised, the plan it
\* sends holds, for every stored row of the employee, the stored value.
UnchangedSaveKeepsScores ==
  sub["edit"].pc = "upsert" =>
    LET stored == RowsOf(scores, sub["edit"].emp)
        plan == planOf("edit")
    IN \A rows \in Orderings(stored) :
         (/\ stored # {}
          /\ sub["edit"].fd
               = initialEditForm(convertEvaluationScoresToEmployees(rows)[1],
                                 sub["edit"].crit, EmptyForm))
         => \A r \in stored : \A i \in DOMAIN plan :
              plan[i].criteria_id = r.criteria_id => plan[i].score = r.score

\* formData[criteria.find(c => c.name === name)?.id || ''] || dflt
valueByName(crit, fd, name, dflt) ==
  IF \E i \in DOMAIN crit : Criterion(crit[i]).name = name
  THEN OrElse(fd, crit[CHOOSE i \in DOMAIN crit :
                         /\ Criterion(crit[i]).name = name
                         /\ \A j \in 1..(i - 1) : Criterion(crit[j]).name # name], dflt)
  ELSE dflt

RECURSIVE addDynamicCriteria(_, _, _)
\* the forEach that adds the criteria outside the thirteen names as properties
addDynamicCriteria(employee, crit, fd) ==
  IF crit = << >> THEN employee
  ELSE LET criterion == Criterion(Head(crit))
       IN addDynamicCriteria(
            IF criterion.name \notin Range(CANONICAL_CRITERIA_ORDER)
            THEN setField(employee, criterion.name, OrElse(fd, criterion.id, 0))
            ELSE employee,
            Tail(crit), fd)

\* the record EmployeeForm hands to onAddEmployee
newEmployee(employeeId, crit, fd) ==
  addDynamicCriteria(
    [ id |-> employeeId, name |-> EmployeeName(employeeId),
      kualitasKerja |-> valueByName(crit, fd, "Kualitas Kerja", 1),
      tanggungJawab |-> valueByName(crit, fd, "Tanggung Jawab", 1),
      kuantitasKerja |-> valueByName(crit, fd, "Kuantitas Kerja", 1),
      pemahamanTugas |-> valueByName(crit, fd, "Pemahaman Tugas", 1),
      inisiatif |-> valueByName(crit, fd, "Inisiatif", 1),
      kerjasama |-> valueByName(crit, fd, "Kerjasama", 1),
      hariAlpa |-> valueByName(crit, fd, "Jumlah Hari Alpa", 0),
      keterlambatan |-> valueByName(crit, fd, "Jumlah Keterlambatan", 0),
      hariIzin |-> valueByName(crit, fd, "Jumlah Hari Izin", 0),
      hariSakit |-> valueByName(crit, fd, "Jumlah Hari Sakit", 0),
      pulangCepat |-> valueByName(crit, fd, "Pulang Cepat", 0),
      prestasi |-> valueByName(crit, fd, "Prestasi", 0),
      suratPeringatan |-> valueByName(crit, fd, "Surat Peringatan", 0) ],
    crit, fd)

\* the record EditEmployeeDialog hands to onUpdate: the employee it was opened
\* on, with each fixed slot taken from the form unless the form holds 0 there
updatedEmployee(employee, fd) ==
  [k \in DOMAIN employee |->
     IF \E i \in DOMAIN CANONICAL_CRITERIA_ORDER :
          switchField(CANONICAL_CRITERIA_ORDER[i]) = k
     THEN OrElse(fd, createFieldName(
                       CANONICAL_CRITERIA_ORDER[
                         CHOOSE i \in DOMAIN CANONICAL_CRITERIA_ORDER :
                           switchField(CANONICAL_CRITERIA_ORDER[i]) = k]),
                 employee[k])
     ELSE employee[k]]

\* the record the handleSubmit in flight hands over once its upsert succeeds
handedOf(t) ==
  IF t = "form" THEN newEmployee(sub[t].emp, sub[t].crit, sub[t].fd)
  ELSE updatedEmployee(editEmployee, sub[t].fd)

\* C24: the record a successful submission hands to its consumer holds, in
\* the slot of every criterion of the snapshot, the value the submission
\* writes to the store for that criterion, a written 0 included.
HandedRecordIsWhatWasWritten ==
  \A t \in Threads :
    (sub[t].pc = "upsert" /\ (t = "edit" => editEmployee.id = sub[t].emp)) =>
      LET plan == planOf(t)
          handed == handedOf(t)
      IN \A i \in DOMAIN plan :
           LET slot == switchField(Criterion(plan[i].criteria_id).name)
           IN slot \in DOMAIN handed /\ handed[slot] = plan[i].score

(***************************************************************************)
(* The form slots of EditEmployeeDialog, for criteria given by name        *)
(***************************************************************************)
\* names an administrator may give: canonical names and names that differ
\* from them or from each other in capitals, blanks or punctuation
DialogNames ==
  {"Prestasi", "prestasi", "Prestasi!", "Kualitas Kerja", "Kualitas-Kerja", "hariAlpa",
   "Hari Alpa", "Disiplin"}

\* the active criteria set as the dialog loads it: names are unique
DialogCriteria ==
  {a \in Arrays(DialogNames, MaxCriteria) :
     /\ Len(a) >= 1
     /\ \A i \in DOMAIN a, j \in DOMAIN a : a[i] = a[j] => i = j}

InitSlots ==
  /\ Mounted
  /\ input \in {[criteria |-> a] : a \in DialogCriteria}

RECURSIVE formDataFrom(_, _, _)
\* the effect on [employee, criteria], over criteria given by name
formDataFrom(employee, names, newFormData) ==
  IF names = << >> THEN newFormData
  ELSE formDataFrom(employee, Tail(names),
         setField(newFormData, createFieldName(Head(names)),
                  OrElse(employee, createEmployeeFieldMapping(Head(names)), 0)))

\* the dialog opens on an employee who has no scores yet
initializeSlots ==
  /\ DOMAIN input = {"criteria"}
  /\ input' = setField(input, "formData",
                       formDataFrom(initialEmployee("e1"), input.criteria, EmptyForm))
  /\ UNCHANGED componentVars

\* handleInputChange(createFieldName(criterion.name), value) of the i-th input
changeSlot(i, value) ==
  /\ DOMAIN input = {"criteria", "formData"}
  /\ i \in DOMAIN input.criteria
  /\ input' = [criteria |-> input.criteria,
               formData |-> setField(input.formData,
                                     createFieldName(input.criteria[i]), value),
               initial |-> input.formData,
               changed |-> i]
  /\ UNCHANGED componentVars

\* the scores of evaluationScoresData, one for each criterion
submitSlots ==
  /\ "formData" \in DOMAIN input
  /\ "submitted" \notin DOMAIN input
  /\ input' = setField(input, "submitted",
                       [i \in DOMAIN input.criteria |->
                          OrElse(input.formData, createFieldName(input.criteria[i]), 0)])
  /\ UNCHANGED componentVars

NextSlots ==
  \/ initializeSlots
  \/ \E i \in 1..MaxCriteria, value \in InputValues \cup {2} : changeSlot(i, value)
  \/ submitSlots

SpecSlots == InitSlots /\ [][NextSlots]_vars

\* C25: two criteria of distinct names have distinct form slots, and the
\* value submitted for a criterion other than the one whose input was changed
\* is the value its slot was initialised with.
DistinctNamesDistinctSlots ==
  {"changed", "submitted"} \subseteq DOMAIN input =>
    \A j \in DOMAIN input.criteria :
      j # input.changed =>
        /\ createFieldName(input.criteria[j]) # createFieldName(input.criteria[input.changed])
        /\ input.submitted[j]
             = OrElse(input.initial, createFieldName(input.criteria[j]), 0)

\* C26: in the projection, the score rows of the criteria outside the
\* canonical list change neither the id, nor the name, nor any of the
\* thirteen fixed slots of a record: these hold what the projection of the
\* canonical rows alone gives them.
ExtensionLeavesFixedSlots ==
  "employees" \in DOMAIN input =>
    LET canonical(r) ==
          /\ r.criteria_id \in CriteriaIds
          /\ Criterion(r.criteria_id).name \in Range(CANONICAL_CRITERIA_ORDER)
        alone == convertEvaluationScoresToEmployees(SelectSeq(input.rows, canonical))
    IN \A i \in DOMAIN input.employees :
         LET employee == input.employees[i]
             fixed == IF \E j \in DOMAIN alone : alone[j].id = employee.id
                      THEN alone[CHOOSE j \in DOMAIN alone : alone[j].id = employee.id]
                      ELSE initialEmployee(employee.id)
         IN \A k \in DOMAIN fixed : employee[k] = fixed[k]

\* C27: while the lookup or the upsert of a submission of EmployeeForm is in
\* flight, the loading flag of the form is set (the submit button is disabled).
LoadingWhileSubmitting ==
  sub["form"].pc \in {"lookup", "upsert"} => loading
====
